---- MODULE Spec2Model ----
(***************************************************************************)
(* A model of code_coverage.py: the coverage stream parser test_package,   *)
(* the aggregator print_results and the __main__ driver that resolves,     *)
(* tests and reports a list of catkin packages.                            *)
(*                                                                         *)
(* Text is modelled character by character: a line is a sequence of        *)
(* one-character strings (without its trailing newline), and the three     *)
(* regular expressions of test_package are operators over such sequences.  *)
(* Positions are 0-based, as in Python's re module.                        *)
(*                                                                         *)
(* Floating-point percentages are held as integers in hundredths of a      *)
(* percentage point (80.0 is 8000); the lines of the model carry at most   *)
(* one fractional digit, so the mean of two parsed values is exact.  The   *)
(* weighted total of print_results is computed in double precision, as     *)
(* Python computes it: a double is held as its significand and exponent.   *)
(***************************************************************************)
EXTENDS Integers, Sequences, FiniteSets, TLC

\* ------------------------------------------------------------------ bounds

\* longest recorded runner output, in lines
MaxLen == 5

\* ------------------------------------------------------------ Python values

\* Python's None in a coverage field (every real percentage is >= 0)
None == -1

\* only 0 is false
Falsy_zeroOnly(x) == x = 0

\* only None is false
Falsy_noneOnly(x) == x = None

\* truth value of `not x` for x a float or None
Falsy(x) == x = None \/ x = 0

\* ------------------------------------------------------------------- text

Digits == {"0", "1", "2", "3", "4", "5", "6", "7", "8", "9"}

DigitVal(c) ==
    CASE c = "0" -> 0 [] c = "1" -> 1 [] c = "2" -> 2 [] c = "3" -> 3
      [] c = "4" -> 4 [] c = "5" -> 5 [] c = "6" -> 6 [] c = "7" -> 7
      [] c = "8" -> 8 [] c = "9" -> 9

\* the literal `lit` occurs in `line` starting at position pos
LookingAt(line, pos, lit) ==
    /\ pos + Len(lit) <= Len(line)
    /\ SubSeq(line, pos + 1, pos + Len(lit)) = lit

\* (?<=lit): the literal `lit` ends right before position pos
LookBehind(line, pos, lit) ==
    /\ pos >= Len(lit)
    /\ SubSeq(line, pos - Len(lit) + 1, pos) = lit

\* length of the longest run of digits starting at position pos
RECURSIVE DigitRun(_, _)
DigitRun(line, pos) ==
    IF pos < Len(line) /\ line[pos + 1] \in Digits
    THEN 1 + DigitRun(line, pos + 1)
    ELSE 0

\* re_coverage_pct = r"Overall coverage rate:"
kCoverageRate ==
    <<"O", "v", "e", "r", "a", "l", "l", " ", "c", "o", "v", "e", "r", "a",
      "g", "e", " ", "r", "a", "t", "e", ":">>

\* the literals of re_failed_test = r"(?<=Failed: )[0-9]*(?= packages failed.)"
kFailed == <<"F", "a", "i", "l", "e", "d", ":", " ">>

kPackagesFailed ==
    <<" ", "p", "a", "c", "k", "a", "g", "e", "s", " ", "f", "a", "i", "l",
      "e", "d">>

\* re_failed_test matches starting at position pos: the lookbehind, a run of
\* digits (any shorter run on backtracking), the lookahead whose last `.`
\* stands for any one character
FailedTestAt(line, pos) ==
    /\ LookBehind(line, pos, kFailed)
    /\ \E j \in 0..DigitRun(line, pos) :
          /\ LookingAt(line, pos + j, kPackagesFailed)
          /\ pos + j + Len(kPackagesFailed) < Len(line)

\* re.match(re_failed_test, line): a match object (TRUE) or None (FALSE);
\* re.match tries position 0 only
MatchFailedTest(line) == FailedTestAt(line, 0)

\* re.search in place of re.match: the header anywhere in the line
MatchCoverageRate_search(line) ==
    \E p \in 0..Len(line) : LookingAt(line, p, kCoverageRate)

\* re.match(re_coverage_pct, line)
MatchCoverageRate(line) == LookingAt(line, 0, kCoverageRate)

\* re_line_pct = r"\d*\.\d*(?=%)" at position pos: the length of the match,
\* or 0 when there is none (a match holds the dot, so it is never empty)
LinePctAt(line, pos) ==
    LET d1 == DigitRun(line, pos)
        d2 == DigitRun(line, pos + d1 + 1)
    IN  IF /\ LookingAt(line, pos + d1, <<".">>)
           /\ LookingAt(line, pos + d1 + 1 + d2, <<"%">>)
        THEN d1 + 1 + d2
        ELSE 0

\* re.findall(re_line_pct, line) scanning from position pos: the matched
\* texts, left to right, not overlapping
RECURSIVE FindAllFrom(_, _)
FindAllFrom(line, pos) ==
    IF pos >= Len(line) THEN <<>>
    ELSE LET n == LinePctAt(line, pos)
         IN  IF n > 0
             THEN <<SubSeq(line, pos + 1, pos + n)>> \o FindAllFrom(line, pos + n)
             ELSE FindAllFrom(line, pos + 1)

FindAll(line) == FindAllFrom(line, 0)

\* value of a run of digits (0 for the empty run)
RECURSIVE Num(_)
Num(ds) ==
    IF ds = <<>> THEN 0
    ELSE 10 * Num(SubSeq(ds, 1, Len(ds) - 1)) + DigitVal(ds[Len(ds)])

RECURSIVE Pow10(_)
Pow10(k) == IF k = 0 THEN 1 ELSE 10 * Pow10(k - 1)

\* position (1-based) of the dot of a matched text
DotOf(text) == CHOOSE i \in 1..Len(text) : text[i] = "."

\* float(text) raises ValueError: the text "." holds no digit
FloatRaises(text) == Len(text) = 1

\* float(text) for a text matched by re_line_pct, in hundredths
ToFloat(text) ==
    LET ip == SubSeq(text, 1, DotOf(text) - 1)
        fp == SubSeq(text, DotOf(text) + 1, Len(text))
    IN  Num(ip) * 100 + (Num(fp) * 100) \div Pow10(Len(fp))

\* statistics.mean of two values
Mean(a, b) == (a + b) \div 2

\* ---- Python floats: IEEE 754 doubles, as far as print_results uses them
\* (values >= 0, far from overflow and underflow)

\* whole numbers of any size are sequences of limbs, the lowest first,
\* without a zero at the high end; <<>> is 0
LimbBits == 15

\* 2^LimbBits
Base == 32768

\* bits of the significand of a double
MantissaBits == 53

RECURSIVE Pow2(_)
Pow2(k) == IF k = 0 THEN 1 ELSE 2 * Pow2(k - 1)

RECURSIVE BigNorm(_)
BigNorm(a) ==
    IF a # <<>> /\ a[Len(a)] = 0 THEN BigNorm(SubSeq(a, 1, Len(a) - 1)) ELSE a

RECURSIVE BigOfInt(_)
BigOfInt(n) == IF n = 0 THEN <<>> ELSE <<n % Base>> \o BigOfInt(n \div Base)

RECURSIVE IntOfBig(_)
IntOfBig(a) == IF a = <<>> THEN 0 ELSE a[1] + Base * IntOfBig(Tail(a))

Limb(a, i) == IF i <= Len(a) THEN a[i] ELSE 0

Zeros(n) == [i \in 1..n |-> 0]

RECURSIVE BigAddFrom(_, _, _, _)
BigAddFrom(a, b, i, carry) ==
    IF i > Len(a) /\ i > Len(b)
    THEN IF carry = 0 THEN <<>> ELSE <<carry>>
    ELSE LET sum == Limb(a, i) + Limb(b, i) + carry
         IN  <<sum % Base>> \o BigAddFrom(a, b, i + 1, sum \div Base)

BigAdd(a, b) == BigAddFrom(a, b, 1, 0)

\* a - b for a >= b
RECURSIVE BigSubFrom(_, _, _, _)
BigSubFrom(a, b, i, borrow) ==
    IF i > Len(a) THEN <<>>
    ELSE LET d == a[i] - Limb(b, i) - borrow
         IN  IF d < 0 THEN <<d + Base>> \o BigSubFrom(a, b, i + 1, 1)
             ELSE <<d>> \o BigSubFrom(a, b, i + 1, 0)

BigSub(a, b) == BigNorm(BigSubFrom(a, b, 1, 0))

RECURSIVE BigCmpFrom(_, _, _)
BigCmpFrom(a, b, i) ==
    IF i = 0 THEN 0
    ELSE IF a[i] < b[i] THEN -1
    ELSE IF a[i] > b[i] THEN 1
    ELSE BigCmpFrom(a, b, i - 1)

\* -1, 0 or 1 as a is less than, equal to or greater than b
BigCmp(a, b) ==
    IF Len(a) < Len(b) THEN -1
    ELSE IF Len(a) > Len(b) THEN 1
    ELSE BigCmpFrom(a, b, Len(a))

RECURSIVE BigMulSmallFrom(_, _, _, _)
BigMulSmallFrom(a, s, i, carry) ==
    IF i > Len(a)
    THEN IF carry = 0 THEN <<>> ELSE <<carry>>
    ELSE LET prod == a[i] * s + carry
         IN  <<prod % Base>> \o BigMulSmallFrom(a, s, i + 1, prod \div Base)

\* a * s for 0 <= s < Base
BigMulSmall(a, s) == IF s = 0 THEN <<>> ELSE BigMulSmallFrom(a, s, 1, 0)

RECURSIVE BigMulFrom(_, _, _)
BigMulFrom(a, b, i) ==
    IF i > Len(b) THEN <<>>
    ELSE BigAdd(IF b[i] = 0 THEN <<>> ELSE Zeros(i - 1) \o BigMulSmall(a, b[i]),
                BigMulFrom(a, b, i + 1))

BigMul(a, b) == IF a = <<>> THEN <<>> ELSE BigMulFrom(a, b, 1)

\* quotient (limbs 1..i) and remainder of a by s, 0 < s < Base, from limb i
\* down, r the remainder of the limbs above
RECURSIVE DivModSmall(_, _, _, _)
DivModSmall(a, s, i, r) ==
    IF i = 0 THEN [q |-> <<>>, r |-> r]
    ELSE LET cur == r * Base + a[i]
             rest == DivModSmall(a, s, i - 1, cur % s)
         IN  [q |-> Append(rest.q, cur \div s), r |-> rest.r]

BigDivSmall(a, s) == BigNorm(DivModSmall(a, s, Len(a), 0).q)

\* a * 2^k
BigShl(a, k) ==
    IF a = <<>> THEN <<>>
    ELSE Zeros(k \div LimbBits) \o BigMulSmall(a, Pow2(k % LimbBits))

\* a \div 2^k
BigShr(a, k) ==
    IF k \div LimbBits >= Len(a) THEN <<>>
    ELSE BigDivSmall(SubSeq(a, k \div LimbBits + 1, Len(a)), Pow2(k % LimbBits))

RECURSIVE Bits(_)
Bits(n) == IF n = 0 THEN 0 ELSE 1 + Bits(n \div 2)

\* the number of bits of a
BigBits(a) == IF a = <<>> THEN 0 ELSE LimbBits * (Len(a) - 1) + Bits(a[Len(a)])

\* a / 2^k rounded to the nearest whole number, a tie to the even one
RoundShr(a, k) ==
    IF k <= 0 THEN BigShl(a, 0 - k)
    ELSE LET q == BigShr(a, k)
             c == BigCmp(BigSub(a, BigShl(q, k)), BigShl(<<1>>, k - 1))
         IN  IF c = 1 \/ (c = 0 /\ q # <<>> /\ q[1] % 2 = 1)
             THEN BigAdd(q, <<1>>)
             ELSE q

\* the double 0.0
FloatZero == [m |-> <<>>, e |-> 0]

\* the double nearest to a * 2^e (round to nearest, ties to even): the
\* significand m has MantissaBits bits and the value is m * 2^e
Float(a, e) ==
    IF a = <<>> THEN FloatZero
    ELSE LET k == BigBits(a) - MantissaBits
             m == RoundShr(a, k)
         IN  IF BigBits(m) > MantissaBits
             THEN [m |-> BigShr(m, 1), e |-> e + k + 1]
             ELSE [m |-> m, e |-> e + k]

\* float(n) for a whole number n >= 0
FloatOfInt(n) == Float(BigOfInt(n), 0)

\* float(a) / float(b) for whole numbers a >= 0 and 0 < b < Base: the
\* quotient to 75 binary places, with one more bit that tells whether
\* anything is left, rounded
FloatDiv(a, b) ==
    LET num == BigShl(BigOfInt(a), 75)
        dm == DivModSmall(num, b, Len(num), 0)
    IN  Float(BigAdd(BigShl(BigNorm(dm.q), 1), IF dm.r = 0 THEN <<>> ELSE <<1>>), -76)

\* the double that holds a percentage given in hundredths
FloatOfHundredths(h) == FloatDiv(h, 100)

FloatMul(x, y) == Float(BigMul(x.m, y.m), x.e + y.e)

FloatAdd(x, y) ==
    IF x.m = <<>> THEN y
    ELSE IF y.m = <<>> THEN x
    ELSE LET e == IF x.e < y.e THEN x.e ELSE y.e
         IN  Float(BigAdd(BigShl(x.m, x.e - e), BigShl(y.m, y.e - e)), e)

\* -1, 0 or 1 as x is less than, equal to or greater than y
FloatCmp(x, y) ==
    IF x.m = <<>> THEN (IF y.m = <<>> THEN 0 ELSE -1)
    ELSE IF y.m = <<>> THEN 1
    ELSE LET e == IF x.e < y.e THEN x.e ELSE y.e
         IN  BigCmp(BigShl(x.m, x.e - e), BigShl(y.m, y.e - e))

\* ------------------------------------------------- recorded runner output

\* "Overall coverage rate:"
L_header == kCoverageRate

\* "l: 80.0%"
L_lines80 == <<"l", ":", " ", "8", "0", ".", "0", "%">>

\* "f: 40.0%"
L_funcs40 == <<"f", ":", " ", "4", "0", ".", "0", "%">>

\* "0.0%"
L_zero == <<"0", ".", "0", "%">>

\* "Failed: 2 packages failed."
L_failed == kFailed \o <<"2">> \o kPackagesFailed \o <<".">>

\* "100%": re_line_pct finds nothing without a decimal point
L_intpct == <<"1", "0", "0", "%">>

\* ".%": the only text re_line_pct matches is "."
L_dotpct == <<".", "%">>

\* " Overall coverage rate:": the header, not at the start of the line
L_indented == <<" ">> \o kCoverageRate

Lines ==
    {L_header, L_lines80, L_funcs40, L_zero, L_failed, L_intpct,
     L_dotpct, L_indented}

RECURSIVE SeqsUpTo(_, _)
SeqsUpTo(S, n) ==
    IF n = 0 THEN {<<>>}
    ELSE LET shorter == SeqsUpTo(S, n - 1)
         IN  shorter \cup {Append(s, x) : s \in {t \in shorter : Len(t) = n - 1}, x \in S}

\* every runner output of at most MaxLen lines
Streams == SeqsUpTo(Lines, MaxLen)

\* ------------------------------------------------------------------ state

Names == {"a", "b"}

PathOf(n) == IF n = "a" THEN "/ws/a" ELSE "/ws/b"

Paths == {PathOf(n) : n \in Names}

\* results of `cloc`; 0 also stands for an unparsable answer
LineCounts == {0, 1, 100, 300}

VARIABLES
    names,                \* sys.argv: the requested package names
    threshold,            \* args.threshold (None when not given)
    located,              \* names `catkin locate` finds
    testdirs,             \* paths with a test subdirectory
    pc,                   \* position of __main__ ("direct": a direct call)
    idx,                  \* index of the current name / package of __main__
    unfound_packages,
    failed_packages,
    test_packages,        \* the Package objects, in order of construction
    exit,                 \* "" while running, then how the process ended
    spawned,              \* the external commands started, in order
    \* the frame of test_package
    tp_pc,                \* "idle", "call", "loop", "returned", "raised"
    tp_exc,               \* the exception test_package raised
    tp_ret,               \* the value test_package returned
    cur,                  \* index in test_packages of pkg
    stream,               \* the lines the runner process writes
    lineno,               \* lines of proc.stdout consumed so far
    pcts,
    get_pkg_percentages,
    line_coverage,
    function_coverage,
    \* the frame of print_results
    pr_pc,                \* "idle", "unfound", "weigh", "threshold", "returned", "raised"
    pr_i,                 \* iterations of `for pkg in unfound` completed
    packages,
    unfound,
    pr_threshold,
    totallines,
    valid_packages,
    total_weighted_coverage,
    out,                  \* what print_results wrote, in order
    first                 \* what an earlier call of test_package on stream ended with

mainVars ==
    <<names, threshold, located, pc, idx, unfound_packages, failed_packages, first>>

tpVars ==
    <<tp_pc, tp_exc, tp_ret, cur, stream, lineno, pcts, get_pkg_percentages,
      line_coverage, function_coverage>>

prVars ==
    <<pr_pc, pr_i, packages, unfound, pr_threshold, totallines, valid_packages,
      total_weighted_coverage, out>>

vars == <<mainVars, testdirs, test_packages, exit, spawned, tpVars, prVars>>

\* Package.__init__
Package(name, path, lineCount) ==
    [name |-> name, path |-> path, lineCount |-> lineCount,
     hasTestDir |-> path \in testdirs,
     coverage_total |-> None, coverage_lines |-> None,
     coverage_functions |-> None, weight |-> None]

\* hasTestDir(path): the directory listing holds a directory named test
hasTestDir(path) == path \in testdirs

\* ----------------------------------------------------------- test_package

\* pcts is left as the call before left it
TP_Start_stale ==
    /\ tp_pc = "call"
    /\ spawned' = spawned \o <<"catkin config", "catkin build">>
    /\ pcts' = pcts
    /\ get_pkg_percentages' = FALSE
    /\ line_coverage' = 0
    /\ function_coverage' = 0
    /\ lineno' = 0
    /\ IF ~hasTestDir(test_packages[cur].path)
       THEN tp_pc' = "returned" /\ tp_ret' = 0
       ELSE tp_pc' = "loop" /\ tp_ret' = tp_ret
    /\ UNCHANGED <<mainVars, testdirs, test_packages, exit, tp_exc, cur, stream, prVars>>

\* lines 59-83: the two external commands are started, the locals are
\* initialised, and only then is the test directory looked for
TP_Start ==
    /\ tp_pc = "call"
    /\ spawned' = spawned \o <<"catkin config", "catkin build">>
    /\ pcts' = <<>>
    /\ get_pkg_percentages' = FALSE
    /\ line_coverage' = 0
    /\ function_coverage' = 0
    /\ lineno' = 0
    /\ IF ~hasTestDir(test_packages[cur].path)
       THEN tp_pc' = "returned" /\ tp_ret' = 0
       ELSE tp_pc' = "loop" /\ tp_ret' = tp_ret
    /\ UNCHANGED <<mainVars, testdirs, test_packages, exit, tp_exc, cur, stream, prVars>>

\* the percentage part of one iteration (lines 90-105): the exception it
\* raises ("" for none) and the locals after it
CollectPct(line) ==
    LET matches == FindAll(line)
        keep == [exc |-> "", pcts |-> pcts, flag |-> get_pkg_percentages,
                 lc |-> line_coverage, fc |-> function_coverage]
    IN  IF ~get_pkg_percentages THEN keep
        ELSE IF matches = <<>> THEN [keep EXCEPT !.exc = "BrokenRegexException"]
        ELSE IF FloatRaises(matches[1]) THEN [keep EXCEPT !.exc = "ValueError"]
        ELSE LET val == ToFloat(matches[1])
             IN  IF pcts = <<>>
                 THEN [keep EXCEPT !.lc = val, !.pcts = Append(pcts, val)]
                 ELSE [keep EXCEPT !.fc = val, !.pcts = Append(pcts, val),
                                   !.flag = FALSE]

\* the failure check of one iteration (lines 110-116): num_failed_tests is 0
\* or the match object, and a match object cannot be compared with 0
FailedCheck(line) ==
    IF MatchFailedTest(line) THEN "TypeError" ELSE ""

\* one iteration of `for line in proc.stdout` (lines 85-116)
TP_Line ==
    /\ tp_pc = "loop"
    /\ lineno < Len(stream)
    /\ LET line == stream[lineno + 1]
           c == CollectPct(line)
           exc == IF c.exc # "" THEN c.exc ELSE FailedCheck(line)
       IN  /\ lineno' = lineno + 1
           /\ pcts' = c.pcts
           /\ line_coverage' = c.lc
           /\ function_coverage' = c.fc
           /\ get_pkg_percentages' =
                 IF c.exc = "" /\ MatchCoverageRate(line) THEN TRUE ELSE c.flag
           /\ tp_exc' = exc
           /\ tp_pc' = IF exc # "" THEN "raised" ELSE "loop"
    /\ UNCHANGED <<mainVars, testdirs, test_packages, exit, spawned, tp_ret, cur,
                   stream, prVars>>

\* only coverage_total is assigned
SetCoverage_totalOnly(p, l, f, t) == [p EXCEPT !.coverage_total = t]

\* the three assignments to pkg (lines 124-126)
SetCoverage(p, l, f, t) ==
    [p EXCEPT !.coverage_lines = l, !.coverage_functions = f, !.coverage_total = t]

\* after the loop (lines 118-128)
TP_End ==
    /\ tp_pc = "loop"
    /\ lineno = Len(stream)
    /\ IF pcts = <<>>
       THEN /\ tp_pc' = "raised"
            /\ tp_exc' = "BrokenRegexException"
            /\ UNCHANGED <<tp_ret, test_packages>>
       ELSE IF Len(pcts) < 2
       THEN /\ tp_pc' = "raised"
            /\ tp_exc' = "IndexError"
            /\ UNCHANGED <<tp_ret, test_packages>>
       ELSE LET total == Mean(pcts[1], pcts[2])
            IN  /\ test_packages' =
                      [test_packages EXCEPT
                          ![cur] = SetCoverage(@, line_coverage, function_coverage, total)]
                /\ tp_ret' = total
                /\ tp_pc' = "returned"
                /\ tp_exc' = tp_exc
    /\ UNCHANGED <<mainVars, testdirs, exit, spawned, cur, stream, lineno, pcts,
                   get_pkg_percentages, line_coverage, function_coverage, prVars>>

test_package == TP_Start \/ TP_Line \/ TP_End

\* the frames that are not running
IdleTP ==
    /\ tp_pc = "idle" /\ tp_exc = "" /\ tp_ret = None /\ cur = 0
    /\ stream = <<>> /\ lineno = 0 /\ pcts = <<>>
    /\ get_pkg_percentages = FALSE
    /\ line_coverage = 0 /\ function_coverage = 0

IdlePR ==
    /\ pr_pc = "idle" /\ pr_i = 0 /\ packages = <<>> /\ unfound = <<>>
    /\ pr_threshold = None /\ totallines = 0 /\ valid_packages = <<>>
    /\ total_weighted_coverage = FloatZero /\ out = <<>>

IdleMain ==
    /\ names = <<>> /\ threshold = None /\ located = {}
    /\ pc = "direct" /\ idx = 0
    /\ unfound_packages = <<>> /\ failed_packages = <<>>
    /\ first = <<>>

\* test_package called on a fresh Package with a recorded runner output
InitParse ==
    /\ IdleMain /\ IdlePR
    /\ testdirs \in SUBSET {PathOf("a")}
    /\ test_packages \in {<<Package("a", PathOf("a"), lc)>> : lc \in {100}}
    /\ exit = "" /\ spawned = <<>>
    /\ tp_pc = "call" /\ tp_exc = "" /\ tp_ret = None /\ cur = 1
    /\ stream \in Streams
    /\ lineno = 0 /\ pcts = <<>> /\ get_pkg_percentages = FALSE
    /\ line_coverage = 0 /\ function_coverage = 0

NextParse == TP_Start \/ TP_Line \/ TP_End

SpecParse == InitParse /\ [][NextParse]_vars

\* the longest runner output test_package is called on twice
MaxLenTwice == 4

\* how a call of test_package ended: returned or raised, the exception, the
\* returned value, the package, and the two percentages
Outcome ==
    [ended |-> tp_pc, exc |-> tp_exc, ret |-> tp_ret, pkg |-> test_packages[cur],
     line_coverage |-> line_coverage, function_coverage |-> function_coverage]

\* test_package(pkg) is called a second time, on a fresh Package equal to the
\* first and with the same runner output (lines 34-37); the frame is the one
\* the first call left behind
Rerun ==
    /\ pc = "direct"
    /\ tp_pc \in {"returned", "raised"}
    /\ first = <<>>
    /\ first' = <<Outcome>>
    /\ test_packages' =
          Append(test_packages,
                 Package(test_packages[cur].name, test_packages[cur].path,
                         test_packages[cur].lineCount))
    /\ cur' = cur + 1
    /\ tp_pc' = "call" /\ tp_exc' = "" /\ tp_ret' = None
    /\ UNCHANGED <<names, threshold, located, pc, idx, unfound_packages, failed_packages,
                   testdirs, exit, spawned, stream, lineno, pcts, get_pkg_percentages,
                   line_coverage, function_coverage, prVars>>

InitTwice ==
    /\ InitParse
    /\ Len(stream) <= MaxLenTwice

NextTwice == TP_Start \/ TP_Line \/ TP_End \/ Rerun

SpecTwice == InitTwice /\ [][NextTwice]_vars

\* ---------------------------------------------------------- print_results

\* the most packages a call of print_results is given
MaxPkgs == 2

\* x == name for a Package x and a str name: Package defines no __eq__, so
\* the comparison is by identity and an object is never equal to a string
PyEq(x, name) == FALSE

\* list.remove(x): the list without its first element equal to x
ListRemove(list, i) == SubSeq(list, 1, i - 1) \o SubSeq(list, i + 1, Len(list))

\* one line of output
Printed(k, name, l, f, t) == [k |-> k, name |-> name, l |-> l, f |-> f, t |-> t]

\* the line the summary loop prints for a package (lines 190-193)
SummaryOf(p) ==
    IF Falsy(p.coverage_total)
    THEN Printed("Coverage summary unavailable", p.name, None, None, None)
    ELSE Printed("Coverage summary", p.name, p.coverage_lines,
                 p.coverage_functions, p.coverage_total)

RECURSIVE Summaries(_)
Summaries(list) ==
    IF list = <<>> THEN <<>>
    ELSE <<SummaryOf(Head(list))>> \o Summaries(Tail(list))

\* valid_packages after the summary loop (lines 189-195)
RECURSIVE Valid(_)
Valid(list) ==
    IF list = <<>> THEN <<>>
    ELSE IF Falsy(Head(list).coverage_total) THEN Valid(Tail(list))
    ELSE <<Head(list)>> \o Valid(Tail(list))

\* totallines after the summary loop: the line counts of the valid packages
RECURSIVE SumLines(_)
SumLines(list) ==
    IF list = <<>> THEN 0
    ELSE Head(list).lineCount + SumLines(Tail(list))

\* total_weighted_coverage after the packages from the i-th on were added
\* to acc, in the order of the list (line 200)
RECURSIVE SumWeightedFrom(_, _, _, _)
SumWeightedFrom(list, lines, i, acc) ==
    IF i > Len(list) THEN acc
    ELSE SumWeightedFrom(list, lines, i + 1,
             FloatAdd(acc, FloatMul(FloatDiv(list[i].lineCount, lines),
                                    FloatOfHundredths(list[i].coverage_total))))

\* total_weighted_coverage after the calculation loop (lines 186, 197-200)
SumWeighted(list, lines) == SumWeightedFrom(list, lines, 1, FloatZero)

\* round(x, 2), in hundredths: the exact value of the double x times 100,
\* rounded to the nearest whole number, a tie to the even one
Round2(x) == IntOfBig(RoundShr(BigMulSmall(x.m, 100), 0 - x.e))

\* `<=` in place of `<`
Below_orEqual(total, t) == t >= 0 /\ FloatCmp(total, FloatOfInt(t)) <= 0

\* total_weighted_coverage < threshold, the threshold a whole number of
\* percents; the total is never negative
Below(total, t) == t >= 0 /\ FloatCmp(total, FloatOfInt(t)) < 0

\* one iteration of `for pkg in unfound` (lines 179-181)
PR_Unfound ==
    /\ pr_pc = "unfound"
    /\ pr_i < Len(unfound)
    /\ LET name == unfound[pr_i + 1]
           hits == {j \in 1..Len(packages) : PyEq(packages[j], name)}
       IN  /\ out' = Append(out, Printed("Package not found", name, None, None, None))
           /\ IF hits = {}
              THEN /\ exit' = "ValueError"
                   /\ pr_pc' = "raised"
                   /\ UNCHANGED <<packages, pr_i>>
              ELSE /\ packages' =
                        ListRemove(packages, CHOOSE j \in hits : \A h \in hits : j <= h)
                   /\ pr_i' = pr_i + 1
                   /\ UNCHANGED <<exit, pr_pc>>
    /\ UNCHANGED <<mainVars, testdirs, test_packages, spawned, tpVars, unfound,
                   pr_threshold, totallines, valid_packages, total_weighted_coverage>>

\* the emptiness check and the summary loop (lines 183-195)
PR_Summaries ==
    /\ pr_pc = "unfound"
    /\ pr_i = Len(unfound)
    /\ IF packages = <<>>
       THEN /\ exit' = "sys.exit: no coverage data generated"
            /\ pr_pc' = "raised"
            /\ UNCHANGED <<out, totallines, valid_packages>>
       ELSE /\ out' = out \o Summaries(packages)
            /\ valid_packages' = Valid(packages)
            /\ totallines' = SumLines(Valid(packages))
            /\ pr_pc' = "weigh"
            /\ exit' = exit
    /\ UNCHANGED <<mainVars, testdirs, test_packages, spawned, tpVars, pr_i, packages,
                   unfound, pr_threshold, total_weighted_coverage>>

\* the calculation loop, the total and catkin_test_results (lines 197-207)
PR_Weigh ==
    /\ pr_pc = "weigh"
    /\ IF valid_packages # <<>> /\ totallines = 0
       THEN /\ exit' = "ZeroDivisionError"
            /\ pr_pc' = "raised"
            /\ UNCHANGED <<out, total_weighted_coverage, spawned>>
       ELSE LET total == SumWeighted(valid_packages, totallines)
            IN  /\ total_weighted_coverage' = total
                /\ out' = Append(out, Printed("Total coverage", "", None, None,
                                              Round2(total)))
                /\ spawned' = Append(spawned, "catkin_test_results")
                /\ pr_pc' = "threshold"
                /\ exit' = exit
    /\ UNCHANGED <<mainVars, testdirs, test_packages, tpVars, pr_i, packages, unfound,
                   pr_threshold, totallines, valid_packages>>

\* the threshold (lines 209-210): `if threshold` is false for None and for 0
PR_Threshold ==
    /\ pr_pc = "threshold"
    /\ IF ~Falsy(pr_threshold) /\ Below(total_weighted_coverage, pr_threshold)
       THEN exit' = "sys.exit: below threshold" /\ pr_pc' = "raised"
       ELSE exit' = exit /\ pr_pc' = "returned"
    /\ UNCHANGED <<mainVars, testdirs, test_packages, spawned, tpVars, pr_i, packages,
                   unfound, pr_threshold, totallines, valid_packages,
                   total_weighted_coverage, out>>

print_results == PR_Unfound \/ PR_Summaries \/ PR_Weigh \/ PR_Threshold

\* coverage results a package given to print_results may carry, in hundredths
Covs == {None, 0, 4000, 6000, 8000}

\* args.threshold, in whole percents
Thresholds == {None, 0, 60}

\* a tested (or untested) Package
Tested(n, lc, c) ==
    [Package(n, PathOf(n), lc) EXCEPT !.coverage_total = c, !.coverage_lines = c,
                                      !.coverage_functions = c]

\* print_results called on a list of packages, a list of unfound names and
\* a threshold
InitReport ==
    /\ IdleMain /\ IdleTP
    /\ testdirs = Paths
    /\ test_packages = <<>>
    /\ exit = "" /\ spawned = <<>>
    /\ pr_pc = "unfound" /\ pr_i = 0
    /\ packages \in SeqsUpTo({Tested(n, lc, c) : n \in Names, lc \in LineCounts, c \in Covs},
                             MaxPkgs)
    /\ unfound \in SeqsUpTo(Names, 1)
    /\ pr_threshold \in Thresholds
    /\ totallines = 0 /\ valid_packages = <<>>
    /\ total_weighted_coverage = FloatZero /\ out = <<>>

NextReport == PR_Unfound \/ PR_Summaries \/ PR_Weigh \/ PR_Threshold

SpecReport == InitReport /\ [][NextReport]_vars

\* ---------------------------------------------------------------- __main__

\* the most names on the command line
MaxNames == 2

\* runner outputs of the packages of a full run: both percentages found,
\* both of them 0.0, the header repeated, one percentage only, no header, a
\* failure-count line in front
RunnerOutputs ==
    {<<L_header, L_lines80, L_funcs40>>,
     <<L_header, L_zero, L_zero>>,
     <<L_header, L_lines80, L_funcs40, L_header, L_zero>>,
     <<L_header, L_lines80>>,
     <<L_intpct>>,
     <<L_failed, L_header, L_funcs40, L_lines80>>}

\* thresholds of a full run
MainThresholds == {None, 60}

\* results of `cloc` in a full run
MainLineCounts == {0, 1, 100}

\* every loop ends after one iteration
After_early(i, list, loop, next) == next

\* the loop a finished iteration of a `for` over `list` leads to: the same
\* loop, or what follows it
After(i, list, loop, next) == IF i < Len(list) THEN loop ELSE next

\* the external tools are installed (catkin, cloc), and names holds the
\* package names after lines 226-228
Init ==
    /\ names \in SeqsUpTo(Names, MaxNames)
    /\ threshold \in MainThresholds
    /\ located \in SUBSET Names
    /\ testdirs \in SUBSET Paths
    /\ pc = After(0, names, "resolve", "report")
    /\ idx = 0
    /\ unfound_packages = <<>> /\ failed_packages = <<>> /\ test_packages = <<>>
    /\ exit = "" /\ spawned = <<>>
    /\ first = <<>>
    /\ IdleTP /\ IdlePR

\* one iteration of the resolving loop (lines 237-241): get_package raises
\* PackageNotFoundException when `catkin locate` answers with ERROR, and
\* builds the Package with the line count `cloc` reports otherwise
Main_Resolve ==
    /\ pc = "resolve"
    /\ idx < Len(names)
    /\ LET name == names[idx + 1]
       IN  IF name \notin located
           THEN /\ unfound_packages' = Append(unfound_packages, name)
                /\ test_packages' = test_packages
                /\ pc' = After(idx + 1, names, "resolve",
                               After(0, test_packages, "test", "report"))
           ELSE \E lc \in MainLineCounts :
                   /\ test_packages' = Append(test_packages, Package(name, PathOf(name), lc))
                   /\ unfound_packages' = unfound_packages
                   /\ pc' = After(idx + 1, names, "resolve", "test")
    /\ idx' = IF idx + 1 < Len(names) THEN idx + 1 ELSE 0
    /\ UNCHANGED <<first, names, threshold, located, failed_packages, testdirs, exit, spawned,
                   tpVars, prVars>>

\* one iteration of the testing loop up to the call (lines 243-246, 249-250)
Main_Test ==
    /\ pc = "test"
    /\ idx < Len(test_packages)
    /\ IF test_packages[idx + 1].hasTestDir
       THEN /\ \E s \in RunnerOutputs : stream' = s
            /\ tp_pc' = "call"
            /\ cur' = idx + 1
            /\ pc' = "in_test"
            /\ idx' = idx
       ELSE /\ pc' = After(idx + 1, test_packages, "test", "report")
            /\ idx' = idx + 1
            /\ UNCHANGED <<stream, tp_pc, cur>>
    /\ UNCHANGED <<first, names, threshold, located, unfound_packages, failed_packages,
                   testdirs, test_packages, exit, spawned, tp_exc, tp_ret, lineno, pcts,
                   get_pkg_percentages, line_coverage, function_coverage, prVars>>

\* every exception is caught
Caught_any(exc) == TRUE

\* the exceptions the `except` clause of the testing loop catches (line 252)
Caught(exc) == exc = "TestFailedException"

\* test_package has ended (lines 246-248, 252-253): its result is checked,
\* TestFailedException is caught, any other exception ends the run
Main_AfterTest ==
    /\ pc = "in_test"
    /\ tp_pc \in {"returned", "raised"}
    /\ LET fatal == IF tp_pc = "returned"
                    THEN IF Falsy(tp_ret) THEN "sys.exit: no coverage data obtained"
                         ELSE ""
                    ELSE IF Caught(tp_exc) THEN "" ELSE tp_exc
       IN  /\ exit' = fatal
           /\ pc' = IF fatal # "" THEN "done"
                    ELSE After(idx + 1, test_packages, "test", "report")
           /\ failed_packages' =
                 IF tp_pc = "raised" /\ Caught(tp_exc)
                 THEN Append(failed_packages, test_packages[cur].name)
                 ELSE failed_packages
    /\ idx' = idx + 1
    /\ tp_pc' = "idle" /\ tp_exc' = "" /\ tp_ret' = None /\ cur' = 0
    /\ stream' = <<>> /\ lineno' = 0 /\ pcts' = <<>>
    /\ get_pkg_percentages' = FALSE
    /\ line_coverage' = 0 /\ function_coverage' = 0
    /\ UNCHANGED <<first, names, threshold, located, unfound_packages, testdirs, test_packages,
                   spawned, prVars>>

\* the call of print_results (line 255)
Main_Report ==
    /\ pc = "report"
    /\ pc' = "in_report"
    /\ pr_pc' = "unfound"
    /\ packages' = test_packages
    /\ unfound' = unfound_packages
    /\ pr_threshold' = threshold
    /\ UNCHANGED <<first, names, threshold, located, idx, unfound_packages, failed_packages,
                   testdirs, test_packages, exit, spawned, tpVars, pr_i, totallines,
                   valid_packages, total_weighted_coverage, out>>

\* the end of the script: print_results returned, or the process ended in it
Main_End ==
    /\ pc = "in_report"
    /\ pr_pc \in {"returned", "raised"}
    /\ pc' = "done"
    /\ exit' = IF pr_pc = "returned" THEN "0" ELSE exit
    /\ UNCHANGED <<first, names, threshold, located, idx, unfound_packages, failed_packages,
                   testdirs, test_packages, spawned, tpVars, prVars>>

Next ==
    \/ Main_Resolve \/ Main_Test \/ Main_AfterTest \/ Main_Report \/ Main_End
    \/ TP_Start \/ TP_Line \/ TP_End
    \/ PR_Unfound \/ PR_Summaries \/ PR_Weigh \/ PR_Threshold

Spec == Init /\ [][Next]_vars

\* ================================================================= claims

\* the package test_package was called on
pkg == test_packages[cur]

\* test_package was called directly and has got past its first statements
DirectTest == pc = "direct" /\ tp_pc \in {"loop", "returned", "raised"}

\* test_package has ended
TestEnded == tp_pc \in {"returned", "raised"}

\* N of a failure-count line "Failed: N packages failed.", 0 for any other line
FailedCount(line) ==
    LET d == DigitRun(line, Len(kFailed))
    IN  IF /\ LookingAt(line, 0, kFailed)
           /\ d > 0
           /\ LookingAt(line, Len(kFailed) + d, kPackagesFailed)
        THEN Num(SubSeq(line, Len(kFailed) + 1, Len(kFailed) + d))
        ELSE 0

\* the line starts with the coverage-rate header
StartsWithHeader(line) == LookingAt(line, 0, kCoverageRate)

NoFailureMarker(s) == \A i \in 1..Len(s) : FailedCount(s[i]) = 0

NoHeader(s) == \A i \in 1..Len(s) : ~StartsWithHeader(s[i])

CoverageUnset(p) ==
    /\ p.coverage_total = None
    /\ p.coverage_lines = None
    /\ p.coverage_functions = None

\* C1: once a failure-count line with N > 0 has been consumed, test_package
\* has failed with TestFailedException at that very line (the first such
\* line), wherever it stands relative to the header and the percentages.
C1_FailureLineRaisesTestFailed ==
    (DirectTest /\ hasTestDir(pkg.path))
        => \A i \in 1..lineno :
              FailedCount(stream[i]) > 0
                  => /\ tp_pc = "raised"
                     /\ tp_exc = "TestFailedException"
                     /\ lineno = i

\* C2: whenever test_package returns successfully, coverage_lines is the
\* first collected percentage, coverage_functions the second, and the
\* returned value and coverage_total are both their mean.
C2_SuccessSetsFieldsFromFirstTwo ==
    (pc = "direct" /\ tp_pc = "returned" /\ hasTestDir(pkg.path))
        => /\ Len(pcts) >= 2
           /\ pkg.coverage_lines = pcts[1]
           /\ pkg.coverage_functions = pcts[2]
           /\ tp_ret = pkg.coverage_total
           /\ 2 * pkg.coverage_total = pkg.coverage_lines + pkg.coverage_functions

\* C3: a stream without failure marker that holds the header and has ended
\* with fewer than two collected percentages makes test_package fail with
\* BrokenRegexException and nothing else.
C3_FewerThanTwoIsBrokenRegex ==
    (/\ pc = "direct" /\ TestEnded /\ hasTestDir(pkg.path)
     /\ NoFailureMarker(stream)
     /\ \E i \in 1..lineno : StartsWithHeader(stream[i])
     /\ Len(pcts) < 2)
        => tp_pc = "raised" /\ tp_exc = "BrokenRegexException"

\* C7: on a package without test directory no external command is ever
\* started and test_package returns 0.
C7_NoTestDirStartsNothing ==
    (DirectTest /\ ~hasTestDir(pkg.path))
        => /\ spawned = <<>>
           /\ tp_pc = "returned"
           /\ tp_ret = 0

\* C8: on a stream with no line starting with the header (and no failure
\* marker) test_package raises nothing before the stream ends, never
\* returns, ends with BrokenRegexException once every line is consumed, and
\* the coverage fields stay unset -- whatever percentages the lines hold.
C8_NoHeaderIsBrokenRegex ==
    (DirectTest /\ hasTestDir(pkg.path) /\ NoHeader(stream) /\ NoFailureMarker(stream))
        => /\ tp_pc # "returned"
           /\ tp_pc = "raised" => (tp_exc = "BrokenRegexException" /\ lineno = Len(stream))
           /\ tp_pc = "loop" => (tp_exc = "" /\ pcts = <<>> /\ ~get_pkg_percentages)
           /\ CoverageUnset(pkg)

\* a stream of several lines, two of them percentages, without header, has
\* been read to its end and has ended in BrokenRegexException
C8_Witness ==
    /\ DirectTest /\ hasTestDir(pkg.path)
    /\ NoHeader(stream) /\ NoFailureMarker(stream)
    /\ Cardinality({i \in 1..Len(stream) : FindAll(stream[i]) # <<>>}) >= 2
    /\ \E i \in 1..Len(stream) : stream[i] = L_indented
    /\ tp_pc = "raised" /\ tp_exc = "BrokenRegexException"
    /\ lineno = Len(stream)

\* ----------------------------------------------- claims about print_results

\* print_results was called directly
DirectReport == pc = "direct" /\ pr_pc # "idle"

\* print_results has ended: it returned, or the process ended in it
ReportEnded == pr_pc \in {"returned", "raised"}

\* the process ended with a non-zero exit status
NonZeroExit == exit \notin {"", "0"}

\* the summary loop has run
SummariesDone ==
    \/ pr_pc \in {"weigh", "threshold", "returned"}
    \/ exit \in {"ZeroDivisionError", "sys.exit: below threshold"}

\* the last line written is the total
TotalPrinted == out # <<>> /\ out[Len(out)].k = "Total coverage"

\* the packages whose coverage_total is set, 0 included
RECURSIVE WithResult(_)
WithResult(list) ==
    IF list = <<>> THEN <<>>
    ELSE IF Head(list).coverage_total = None THEN WithResult(Tail(list))
    ELSE <<Head(list)>> \o WithResult(Tail(list))

\* C5: totallines is the sum of lineCount over exactly the packages whose
\* coverage_total is set (0 counts as set), and the weighted total is the
\* sum over those packages of lineCount / totallines * coverage_total.
C5_WeightedTotalOverSetPackages ==
    DirectReport
        => /\ SummariesDone => totallines = SumLines(WithResult(packages))
           /\ (/\ TotalPrinted
               /\ WithResult(packages) = <<>> \/ SumLines(WithResult(packages)) > 0)
                 => total_weighted_coverage
                       = SumWeighted(WithResult(packages), SumLines(WithResult(packages)))

\* C6 as stated: print_results ends the process with a non-zero exit if and
\* only if a threshold is set and the weighted total is strictly below it,
\* and only after the summaries and the total were printed; otherwise it
\* returns normally.
C6_NonZeroExitIffBelowThreshold ==
    (DirectReport /\ ReportEnded)
        => /\ NonZeroExit <=>
                 (/\ pr_threshold # None
                  /\ FloatCmp(total_weighted_coverage, FloatOfInt(pr_threshold)) < 0)
           /\ NonZeroExit => TotalPrinted
           /\ ~NonZeroExit => pr_pc = "returned"

\* C6 amended: the threshold exit happens only after one summary line per
\* package and the total were printed, and once the total is printed
\* print_results ends the process with a non-zero exit if and only if a
\* threshold is set and the unrounded weighted total is strictly below it,
\* and returns normally otherwise.
C6_AfterTotalNonZeroExitIffBelowThreshold ==
    DirectReport
        => /\ exit = "sys.exit: below threshold"
                 => (TotalPrinted /\ Len(out) = Len(unfound) + Len(packages) + 1)
           /\ (ReportEnded /\ TotalPrinted)
                 => /\ NonZeroExit <=>
                          (/\ pr_threshold # None
                           /\ FloatCmp(total_weighted_coverage, FloatOfInt(pr_threshold)) < 0)
                    /\ ~NonZeroExit => pr_pc = "returned"

\* packages (100 lines, 80%) and (300 lines, 40%), threshold 60: both
\* summaries and the total 50.00 are printed, then the exit is non-zero
C6_Witness ==
    /\ DirectReport /\ ReportEnded
    /\ Len(packages) = 2
    /\ packages[1].lineCount = 100 /\ packages[1].coverage_total = 8000
    /\ packages[2].lineCount = 300 /\ packages[2].coverage_total = 4000
    /\ pr_threshold = 60
    /\ Len(out) = 3
    /\ out[3].k = "Total coverage" /\ out[3].t = 5000
    /\ exit = "sys.exit: below threshold"

\* C9: print_results never fails with a division error, also when the
\* packages with a coverage result have 0 lines in all: the total is printed.
C9_NoDivisionError ==
    DirectReport
        => /\ exit # "ZeroDivisionError"
           /\ (ReportEnded /\ SummariesDone) => TotalPrinted

\* C10: when no package of the reporting set has coverage data (the set is
\* empty, or every package in it has coverage_total unset), print_results
\* ends with a non-zero exit and prints no total.
C10_NoCoverageDataIsFatal ==
    (/\ DirectReport /\ ReportEnded
     /\ \A j \in 1..Len(packages) : packages[j].coverage_total = None)
        => /\ NonZeroExit
           /\ \A j \in 1..Len(out) : out[j].k # "Total coverage"

\* ------------------------------------------------ claims about a full run

\* the "Package not found" diagnostics written so far
NotFoundLines == {j \in 1..Len(out) : out[j].k = "Package not found"}

\* C4: in a run where some name resolves and some name is unfound,
\* print_results does not abort while removing the unfound names: it writes
\* one diagnostic per unfound name, then the summary of every resolved
\* package and the total.
C4_UnfoundNamesAreRemoved ==
    (/\ pc \in {"in_report", "done"} /\ pr_pc # "idle"
     /\ test_packages # <<>> /\ unfound_packages # <<>>)
        => /\ exit # "ValueError"
           /\ pr_pc \in {"weigh", "threshold", "returned"}
                 => /\ Cardinality(NotFoundLines) = Len(unfound_packages)
                    /\ Len(out) >= Len(unfound_packages) + Len(test_packages)


\* the three coverage fields of a package
Fields(p) == <<p.coverage_total, p.coverage_lines, p.coverage_functions>>

\* C11: in every state of a run coverage_total is set exactly when
\* coverage_lines and coverage_functions both are; the fields of a package
\* change only in the step in which test_package returns successfully on
\* that package, and only from unset; they are unset when test_package has
\* raised; print_results works on the packages as the tests left them.
C11_FieldsSetTogetherOnce ==
    /\ [](\A j \in 1..Len(test_packages) :
            LET p == test_packages[j]
            IN  /\ p.coverage_total # None
                    <=> (p.coverage_lines # None /\ p.coverage_functions # None)
                /\ (tp_pc = "raised" /\ cur = j) => CoverageUnset(p))
    /\ [](pr_pc # "idle" => packages = test_packages)
    /\ [][\A j \in 1..Len(test_packages) :
            Fields(test_packages'[j]) # Fields(test_packages[j])
                => /\ CoverageUnset(test_packages[j])
                   /\ cur = j
                   /\ tp_pc = "loop" /\ tp_pc' = "returned"
                   /\ test_packages'[j].coverage_total = tp_ret']_vars

\* a finished run with a package whose three fields are set and one whose
\* fields are all unset
C11_Witness ==
    /\ pc = "done" /\ exit = "0"
    /\ \E j, k \in 1..Len(test_packages) :
          /\ test_packages[j].coverage_total = 6000
          /\ test_packages[j].coverage_lines = 8000
          /\ test_packages[j].coverage_functions = 4000
          /\ CoverageUnset(test_packages[k])

\* --------------------------------------------- claims about repeated calls

\* C12: test_package called a second time on the same runner output, with a
\* fresh Package, ends as the first call did: it returns the same value and
\* leaves the same percentages and total in the package, or raises the same
\* exception, and both calls start the same external commands.
C12_SecondCallEndsAsFirst ==
    (pc = "direct" /\ first # <<>> /\ TestEnded)
        => /\ tp_pc = first[1].ended
           /\ tp_exc = first[1].exc
           /\ tp_ret = first[1].ret
           /\ Fields(pkg) = Fields(first[1].pkg)
           /\ line_coverage = first[1].line_coverage
           /\ function_coverage = first[1].function_coverage
           /\ first[1].pkg = test_packages[1]
           /\ SubSeq(spawned, 1, 2) = SubSeq(spawned, 3, 4)

\* both calls returned 60.0 with 80.0 and 40.0 in the package
C12_Witness ==
    /\ pc = "direct" /\ first # <<>> /\ tp_pc = "returned"
    /\ cur = 2
    /\ first[1].ret = 6000 /\ tp_ret = 6000
    /\ Fields(test_packages[1]) = <<6000, 8000, 4000>>
    /\ Fields(test_packages[2]) = <<6000, 8000, 4000>>

\* ------------------------------------------ claims about the scan loop

\* C13: in every state of the scan loop at most two percentages are
\* collected, and once two are collected the recorded line coverage is the
\* first of them and the recorded function coverage the second, whatever
\* follows a repeated header.
C13_AtMostTwoCollected ==
    (DirectTest /\ hasTestDir(pkg.path))
        => /\ Len(pcts) <= 2
           /\ Len(pcts) >= 2 => (line_coverage = pcts[1] /\ function_coverage = pcts[2])

\* the line holds a decimal percentage: digits, a point, digits, then '%'
HoldsDecimalPct(line) ==
    \E i \in 2..Len(line) :
        /\ line[i] = "."
        /\ line[i - 1] \in Digits
        /\ DigitRun(line, i) > 0
        /\ LookingAt(line, i + DigitRun(line, i), <<"%">>)

\* C14: a line consumed while the collecting flag is true either holds a
\* decimal percentage, and then one more value is collected without an
\* exception (the second of a window clears the flag), or it holds none, and
\* then test_package fails with BrokenRegexException at that very line.
C14_CollectingLineMustHoldPct ==
    [][(/\ pc = "direct" /\ tp_pc = "loop" /\ lineno < Len(stream)
        /\ get_pkg_percentages /\ Len(pcts) < 2)
          => LET line == stream[lineno + 1]
             IN  IF HoldsDecimalPct(line)
                 THEN /\ tp_pc' = "loop" /\ tp_exc' = ""
                      /\ Len(pcts') = Len(pcts) + 1
                      /\ get_pkg_percentages' = (pcts = <<>>)
                 ELSE /\ tp_pc' = "raised"
                      /\ tp_exc' = "BrokenRegexException"
                      /\ lineno' = lineno + 1
                      /\ pcts' = pcts]_vars

\* ----------------------------------------- claims about the weighted total

\* C19: whenever print_results has computed the weighted total over a
\* non-empty list of included packages with totallines > 0, the total is not
\* below the smallest and not above the largest coverage_total of the
\* included packages.
C19_TotalBetweenMinAndMax ==
    (DirectReport /\ TotalPrinted /\ valid_packages # <<>> /\ totallines > 0)
        => /\ \E j \in 1..Len(valid_packages) :
                 FloatCmp(FloatOfHundredths(valid_packages[j].coverage_total),
                          total_weighted_coverage) <= 0
           /\ \E j \in 1..Len(valid_packages) :
                 FloatCmp(total_weighted_coverage,
                          FloatOfHundredths(valid_packages[j].coverage_total)) <= 0

\* ------------------------------------------- claims about the main loops

C16_BrokenRegexStopsRun ==
    /\ [][(pc = "in_test" /\ tp_pc = "raised" /\ tp_exc = "BrokenRegexException")
             => /\ pc' = "done"
                /\ exit' = "BrokenRegexException"
                /\ failed_packages' = failed_packages
                /\ spawned' = spawned
                /\ pr_pc' = "idle"]_vars
    /\ [](exit = "BrokenRegexException"
             => (pc = "done" /\ tp_pc = "idle" /\ pr_pc = "idle" /\ out = <<>>))
    /\ [][pc # "done"]_vars

\* the first of two packages with tests ended the run with
\* BrokenRegexException: the second was never tested
C16_Witness ==
    /\ exit = "BrokenRegexException"
    /\ Len(test_packages) = 2
    /\ idx = 1
    /\ test_packages[2].hasTestDir
    /\ spawned = <<"catkin config", "catkin build">>

IsLocated(n) == n \in located

NotLocated(n) == n \notin located

HasTests(p) == p.hasTestDir

\* the packages among the first k that have a test directory
WithTestsUpTo(k) == {j \in 1..k : test_packages[j].hasTestDir}

\* C17: while names are resolved nothing is tested or reported; once the
\* resolving loop has ended the packages are the located names and the
\* unfound list the other names, both in the order of the command line;
\* during the testing loop exactly the packages with a test directory up to
\* the current one have been tested, one after the other; print_results
\* runs only when the testing loop has gone through every package.
C17_ResolveThenTestThenReport ==
    /\ [](pc = "resolve"
             => /\ spawned = <<>> /\ tp_pc = "idle" /\ pr_pc = "idle"
                /\ Len(test_packages) + Len(unfound_packages) = idx)
    /\ [](pc \notin {"resolve", "direct"}
             => /\ [j \in 1..Len(test_packages) |-> test_packages[j].name]
                      = SelectSeq(names, IsLocated)
                /\ unfound_packages = SelectSeq(names, NotLocated))
    /\ [](pc \in {"test", "in_test"}
             => /\ pr_pc = "idle"
                /\ pc = "in_test" => cur = idx + 1
                /\ pc = "test" => tp_pc = "idle"
                /\ Len(spawned)
                      = 2 * Cardinality(WithTestsUpTo(IF pc = "in_test" /\ tp_pc # "call"
                                                      THEN idx + 1 ELSE idx)))
    /\ []((pc # "direct" /\ pr_pc # "idle")
             => /\ tp_pc = "idle"
                /\ idx = Len(test_packages)
                /\ Len(spawned) >= 2 * Cardinality(WithTestsUpTo(Len(test_packages))))

\* the first name was not found, the second was resolved and tested, and
\* print_results has started
C17_Witness ==
    /\ Len(names) = 2
    /\ unfound_packages = <<names[1]>>
    /\ Len(test_packages) = 1
    /\ test_packages[1].name = names[2]
    /\ test_packages[1].coverage_total = 6000
    /\ pr_pc = "unfound"

\* C18: in a full run a package without a test directory is passed over in
\* one step without error and without a call of test_package, its coverage
\* stays unset, and in the report it is listed as unavailable and adds
\* nothing to totallines, to the included packages or to the weighted total.
C18_NoTestDirIsSkipped ==
    /\ [](pc # "direct"
             => \A j \in 1..Len(test_packages) :
                   ~test_packages[j].hasTestDir
                       => (CoverageUnset(test_packages[j]) /\ cur # j))
    /\ [][(pc = "test" /\ idx < Len(test_packages) /\ ~test_packages[idx + 1].hasTestDir)
             => /\ exit' = "" /\ spawned' = spawned /\ tp_pc' = "idle"
                /\ failed_packages' = failed_packages
                /\ idx' = idx + 1
                /\ pc' = IF idx + 1 < Len(test_packages) THEN "test" ELSE "report"]_vars
    /\ []((pc # "direct" /\ SummariesDone)
             => /\ \A j \in 1..Len(packages) :
                      ~packages[j].hasTestDir
                          => out[Len(unfound) + j]
                                = Printed("Coverage summary unavailable",
                                          packages[j].name, None, None, None)
                /\ valid_packages = SelectSeq(packages, HasTests)
                /\ totallines = SumLines(SelectSeq(packages, HasTests))
                /\ TotalPrinted
                      => total_weighted_coverage
                            = SumWeighted(SelectSeq(packages, HasTests), totallines))

\* a package without test directory and 1 line and a tested package with
\* 100 lines and 60.0: the report counts 100 lines and the total is 60.0
C18_Witness ==
    /\ pc = "done" /\ exit = "0"
    /\ Len(test_packages) = 2
    /\ ~test_packages[1].hasTestDir /\ test_packages[1].lineCount = 1
    /\ test_packages[2].hasTestDir /\ test_packages[2].lineCount = 100
    /\ totallines = 100
    /\ out[1].k = "Coverage summary unavailable"
    /\ out[3] = Printed("Total coverage", "", None, None, 6000)

\* C20: when test_package has returned 0 the next step ends the run with
\* 'no coverage data obtained': nothing more is started and print_results is
\* never called; so no package with coverage_total 0 reaches the report.
C20_ZeroResultIsFatal ==
    /\ [][(pc = "in_test" /\ tp_pc = "returned" /\ tp_ret = 0)
             => /\ pc' = "done"
                /\ exit' = "sys.exit: no coverage data obtained"
                /\ spawned' = spawned
                /\ pr_pc' = "idle"]_vars
    /\ [](exit = "sys.exit: no coverage data obtained"
             => (pc = "done" /\ tp_pc = "idle" /\ pr_pc = "idle" /\ out = <<>>))
    /\ []((pc # "direct" /\ pr_pc # "idle")
             => \A j \in 1..Len(packages) : packages[j].coverage_total # 0)

\* the first of two packages with tests had 0.0 and 0.0: the run has ended
\* and the second was never tested
C20_Witness ==
    /\ exit = "sys.exit: no coverage data obtained"
    /\ Len(test_packages) = 2
    /\ idx = 1
    /\ Fields(test_packages[1]) = <<0, 0, 0>>
    /\ test_packages[2].hasTestDir /\ CoverageUnset(test_packages[2])
    /\ spawned = <<"catkin config", "catkin build">>

====
